---------------------------- MODULE Spec2Model ----------------------------
(***************************************************************************)
(* A model of LLM_Usage/SQL_Ollama/sqlite_schema_explorer.py: the SQLite   *)
(* explorer that turns a natural-language question into SQL with an       *)
(* Ollama backend, executes it and prints the result.                      *)
(*                                                                         *)
(* Python str values are TLA+ strings.  The backquote is not a legal       *)
(* character of a TLA+ string, so the model writes it as BT.               *)
(***************************************************************************)
EXTENDS Integers, Sequences, FiniteSets, TLC

VARIABLES
    raw,        \* the text handed to the clean-up code of natural_language_to_sql
    once,       \* its clean-up
    twice,      \* the clean-up of the clean-up
    sanPc,      \* position of the clean-up harness
    connection, \* self.connection of the SQLiteExplorer
    disk,       \* the committed content of the database file
    work,       \* the content the connection sees, uncommitted changes included
    inTxn,      \* the connection has an open transaction
    call,       \* the latest method call of a client of SQLiteExplorer and its outcome
    hadFailure, \* an execute_query on this connection has returned an error
    pc,         \* position in main
    ask,        \* args.ask ("" when no question was given)
    opened,     \* explorer.connect() returned True
    tables,     \* main's list of table names
    schema_description, \* main's schema description, as its lines
    prompt,     \* the prompt of natural_language_to_sql, as its lines
    reply,      \* what the backend did with the generate request
    generated,  \* the value returned by ollama_client.generate
    sql_query,  \* main's sql_query
    results,    \* main's results
    exc,        \* the exception propagating out of the try block ("" for none)
    closes,     \* number of times the connection was closed
    stages,     \* the pipeline stages run so far, in order
    printed,    \* the lines printed about the request
    disk0       \* the committed content of the database when main started

sanVars == <<raw, once, twice, sanPc>>

dbVars == <<connection, disk, work, inTxn>>

clientVars == <<call, hadFailure>>

mainVars == <<pc, ask, opened, tables, schema_description, prompt, reply, generated,
              sql_query, results, exc, closes, stages, printed, disk0>>

vars == <<raw, once, twice, sanPc, connection, disk, work, inTxn,
          call, hadFailure, pc, ask, opened, tables, schema_description, prompt,
          reply, generated, sql_query, results, exc, closes, stages, printed, disk0>>

-----------------------------------------------------------------------------
(* Bounds *)

MaxChunks == 6

MaxRows == 3

-----------------------------------------------------------------------------
(* Python str methods used by the program *)

\* F applied to the value of e, with e evaluated once
Bind(e, F(_)) == CHOOSE r \in {F(v) : v \in {e}} : TRUE

BT == "~"

Fence == BT \o BT \o BT

FenceSql == Fence \o "sql"

Whitespace == {" ", "\t", "\n", "\r"}

RECURSIVE LStrip(_)
LStrip(s) == IF s # "" /\ Head(s) \in Whitespace THEN LStrip(Tail(s)) ELSE s

RECURSIVE RStrip(_)
RStrip(s) ==
    IF s # "" /\ SubSeq(s, Len(s), Len(s)) \in Whitespace
    THEN RStrip(SubSeq(s, 1, Len(s) - 1))
    ELSE s

Strip(s) == RStrip(LStrip(s))

StartsWith(s, p) == Len(s) >= Len(p) /\ SubSeq(s, 1, Len(p)) = p

EndsWith(s, p) == Len(s) >= Len(p) /\ SubSeq(s, Len(s) - Len(p) + 1, Len(s)) = p

\* the 1-based positions at which p occurs in s
Occurrences(s, p) ==
    {i \in 1..(Len(s) - Len(p) + 1) : SubSeq(s, i, i + Len(p) - 1) = p}

Min(S) == CHOOSE m \in S : \A n \in S : m <= n

Max(S) == CHOOSE m \in S : \A n \in S : m >= n

\* str.find and str.rfind: the 0-based index of the first/last occurrence, -1 if none
Find(s, p) == IF Occurrences(s, p) = {} THEN -1 ELSE Min(Occurrences(s, p)) - 1

RFind(s, p) == IF Occurrences(s, p) = {} THEN -1 ELSE Max(Occurrences(s, p)) - 1

\* s[:k] and s[k:] for 0 <= k <= len(s)
Prefix(s, k) == SubSeq(s, 1, k)

Suffix(s, k) == SubSeq(s, k + 1, Len(s))

\* s.replace(old, new, 1)
ReplaceFirst(s, old, new) ==
    IF Find(s, old) = -1 THEN s
    ELSE Prefix(s, Find(s, old)) \o new \o Suffix(s, Find(s, old) + Len(old))

RECURSIVE ReplaceAll(_, _, _)
ReplaceAll(s, old, new) ==
    IF Find(s, old) = -1 THEN s
    ELSE Prefix(s, Find(s, old)) \o new
         \o ReplaceAll(Suffix(s, Find(s, old) + Len(old)), old, new)

-----------------------------------------------------------------------------
(* Values and databases *)

\* a Python value held in a database cell or in a result: its type and its
\* text (for bytes, one character per byte)
IntVal(s) == [kind |-> "int", val |-> s]

TextVal(s) == [kind |-> "text", val |-> s]

BlobVal(s) == [kind |-> "blob", val |-> s]

NullCell == [kind |-> "null", val |-> ""]

Blob12 == BlobVal("0123456789ab")

\* a row of PRAGMA table_info: dflt is <<>> for None, <<d>> for the text d
Col(cid, name, type, notnull, dflt, pk) ==
    [cid |-> cid, name |-> name, type |-> type, notnull |-> notnull,
     dflt |-> dflt, pk |-> pk]

\* a row of PRAGMA foreign_key_list
Fk(id, seq, table, from, to) ==
    [id |-> id, seq |-> seq, table |-> table, from |-> from, to |-> to,
     on_update |-> "NO ACTION", on_delete |-> "NO ACTION", match |-> "NONE"]

Table(name, cols, fks, rows) ==
    [name |-> name, cols |-> cols, fks |-> fks, rows |-> rows]

ColsT == <<Col(0, "id", "INTEGER", 0, <<>>, 1),
           Col(1, "x", "INTEGER", 1, <<"0">>, 0),
           Col(2, "b", "BLOB", 0, <<>>, 0)>>

ColsU == <<Col(0, "a", "INTEGER", 0, <<>>, 1),
           Col(1, "b", "TEXT", 0, <<>>, 2)>>

ColsOrder == <<Col(0, "id", "INTEGER", 0, <<>>, 1)>>

\* users(id INTEGER PRIMARY KEY, name TEXT NOT NULL)
ColsUsers == <<Col(0, "id", "INTEGER", 0, <<>>, 1),
               Col(1, "name", "TEXT", 1, <<>>, 0)>>

ColsSeq == <<Col(0, "name", "", 0, <<>>, 0), Col(1, "seq", "", 0, <<>>, 0)>>

\* the k-th row of table t: its key is k, its last cell binary, a word or a
\* text of two lines
RowT(k, variant) ==
    <<IntVal(ToString(k)), IntVal("0"),
      IF variant = "blob" \/ (variant = "mixed" /\ k % 2 = 1) THEN Blob12
      ELSE IF variant = "lines" /\ k = 1 THEN TextVal("a\nb")
      ELSE TextVal("hi")>>

RowsT == {[k \in 1..n |-> RowT(k, variant)] :
            n \in 0..MaxRows, variant \in {"blob", "text", "mixed", "lines"}}

TableNamed(name, rowsT) ==
    CASE name = "t" -> Table("t", ColsT, <<>>, rowsT)
      [] name = "u" -> Table("u", ColsU, <<Fk(0, 0, "t", "a", "id")>>,
                             <<<<IntVal("1"), TextVal("p")>>>>)
      [] name = "order" -> Table("order", ColsOrder, <<>>, <<>>)
      [] name = "sqlitex" -> Table("sqlitex", ColsOrder, <<>>, <<<<IntVal("1")>>>>)
      [] name = "users" -> Table("users", ColsUsers, <<>>,
                                 <<<<IntVal("1"), TextVal("ann")>>,
                                   <<IntVal("2"), TextVal("bob")>>>>)
      [] OTHER -> Table(name, ColsSeq, <<>>, <<>>)

\* the tables of sqlite_master, in its order
TableLists == {<<>>, <<"t">>, <<"t", "u">>, <<"order", "t">>, <<"sqlite_sequence", "t">>,
               <<"users">>, <<"sqlitex", "sqlite_sequence">>}

Databases ==
    {[i \in 1..Len(names) |-> TableNamed(names[i], rowsT)] :
        names \in TableLists, rowsT \in RowsT}

Range(f) == {f[i] : i \in DOMAIN f}

HasTable(w, name) == \E i \in DOMAIN w : w[i].name = name

TableOf(w, name) == w[CHOOSE i \in DOMAIN w : w[i].name = name]

-----------------------------------------------------------------------------
(* The sqlite3 driver, as the program calls it *)

\* statements the engine is given
QSelect1 == "SELECT 1"

QSelectT == "SELECT * FROM t"

QUpdateT == "UPDATE t SET x=1"

QSelectNone == "SELECT * FROM t WHERE x=5"

QUpdateReturning == "UPDATE t SET x=1 RETURNING id"

QSelectDup == "SELECT id AS a, x AS a FROM t"

QBad == "SELEC * FORM t"

SyntaxErrorText == "syntax error"

NoSuchTable(name) == "no such table: " \o name

ClosedText == "Cannot operate on a closed database."

NoneText == "NoneType object has no attribute cursor"

\* what a fault injected into a driver call raises
FaultText(fault) ==
    CASE fault = "cursor" -> "out of memory"
      [] fault = "execute" -> "database is locked"
      [] fault = "fetch" -> "database disk image is malformed"
      [] fault = "commit" -> "disk I/O error"
      [] OTHER -> "unable to open database file"

SqlKeywords == {"order", "table", "select", "group"}

\* a table name that can be spliced unquoted into a statement
IsBareName(name) ==
    /\ name \notin SqlKeywords
    /\ \A i \in 1..Len(name) : SubSeq(name, i, i) \notin Whitespace

SetX(row) == [row EXCEPT ![2] = IntVal("1")]

\* cursor.execute(q) on the working copy w: the error raised ("" for none),
\* cursor.description (hasDesc FALSE for None), the rows to fetch,
\* cursor.rowcount, the working copy afterwards, and whether q writes
Ran(err, hasDesc, desc, rows, rowcount, w, dml) ==
    [err |-> err, hasDesc |-> hasDesc, desc |-> desc, rows |-> rows,
     rowcount |-> rowcount, work |-> w, dml |-> dml]

DriverRun(q, w) ==
    LET s == Strip(q) IN
    CASE s = "" -> Ran("", FALSE, <<>>, <<>>, -1, w, FALSE)
      [] s = QSelect1 -> Ran("", TRUE, <<"1">>, <<<<IntVal("1")>>>>, -1, w, FALSE)
      [] s = QSelectT ->
            IF HasTable(w, "t")
            THEN Ran("", TRUE, [j \in 1..Len(ColsT) |-> ColsT[j].name],
                     TableOf(w, "t").rows, -1, w, FALSE)
            ELSE Ran(NoSuchTable("t"), FALSE, <<>>, <<>>, -1, w, FALSE)
      [] s = QSelectNone ->
            IF HasTable(w, "t")
            THEN Ran("", TRUE, [j \in 1..Len(ColsT) |-> ColsT[j].name],
                     SelectSeq(TableOf(w, "t").rows, LAMBDA row : row[2] = IntVal("5")),
                     -1, w, FALSE)
            ELSE Ran(NoSuchTable("t"), FALSE, <<>>, <<>>, -1, w, FALSE)
      [] s = QUpdateT ->
            IF HasTable(w, "t")
            THEN Ran("", FALSE, <<>>, <<>>, Len(TableOf(w, "t").rows),
                     [i \in DOMAIN w |->
                        IF w[i].name = "t"
                        THEN [w[i] EXCEPT !.rows =
                                [k \in DOMAIN w[i].rows |-> SetX(w[i].rows[k])]]
                        ELSE w[i]],
                     TRUE)
            ELSE Ran(NoSuchTable("t"), FALSE, <<>>, <<>>, -1, w, FALSE)
      [] s = QUpdateReturning ->
            IF HasTable(w, "t")
            THEN Ran("", TRUE, <<"id">>,
                     [k \in DOMAIN TableOf(w, "t").rows |-> <<TableOf(w, "t").rows[k][1]>>],
                     Len(TableOf(w, "t").rows),
                     [i \in DOMAIN w |->
                        IF w[i].name = "t"
                        THEN [w[i] EXCEPT !.rows =
                                [k \in DOMAIN w[i].rows |-> SetX(w[i].rows[k])]]
                        ELSE w[i]],
                     TRUE)
            ELSE Ran(NoSuchTable("t"), FALSE, <<>>, <<>>, -1, w, FALSE)
      [] s = QSelectDup ->
            IF HasTable(w, "t")
            THEN Ran("", TRUE, <<"a", "a">>,
                     [k \in DOMAIN TableOf(w, "t").rows |->
                        <<TableOf(w, "t").rows[k][1], TableOf(w, "t").rows[k][2]>>],
                     -1, w, FALSE)
            ELSE Ran(NoSuchTable("t"), FALSE, <<>>, <<>>, -1, w, FALSE)
      [] OTHER -> Ran(SyntaxErrorText, FALSE, <<>>, <<>>, -1, w, FALSE)

\* the name matches the pattern 'sqlite_%' of LIKE: _ is any one character,
\* % any text, letters compare without case
UpperOf == [c \in {"s", "q", "l", "i", "t", "e"} |->
              CASE c = "s" -> "S" [] c = "q" -> "Q" [] c = "l" -> "L"
                [] c = "i" -> "I" [] c = "t" -> "T" [] OTHER -> "E"]

LikeSqlitePattern(name) ==
    /\ Len(name) >= 7
    /\ \A i \in 1..6 :
          LET c == SubSeq("sqlite", i, i) IN SubSeq(name, i, i) \in {c, UpperOf[c]}

-----------------------------------------------------------------------------
(* class SQLiteExplorer.  self.connection is "None" before connect, then   *)
(* "open", and "closed" once close() was called on it.  A fault argument   *)
(* names the driver call that raises during this call ("none": no call).   *)

DbBaseName == "x.db"

\* connect, lines 97-109: the new value of self.connection and the result
ConnectAlwaysTrue(conn, fileExists, raises) ==
    IF fileExists /\ ~raises
    THEN [connection |-> "open", ok |-> TRUE]
    ELSE [connection |-> conn, ok |-> TRUE]

Connect(conn, fileExists, raises) ==
    IF fileExists /\ ~raises
    THEN [connection |-> "open", ok |-> TRUE]
    ELSE [connection |-> conn, ok |-> FALSE]

\* disconnect, lines 111-115
DisconnectSkips(conn) == [connection |-> conn, closes |-> 0]

Disconnect(conn) ==
    IF conn # "None"
    THEN [connection |-> "closed", closes |-> 1]
    ELSE [connection |-> conn, closes |-> 0]

IsUserTable(tb) == ~LikeSqlitePattern(tb.name)

\* get_tables, lines 117-127
GetTables(conn, w, fault) ==
    IF conn # "open" \/ fault # "none"
    THEN <<>>
    ELSE LET found == SelectSeq(w, IsUserTable)
         IN  [i \in 1..Len(found) |-> found[i].name]

EmptyStructure == [columns |-> <<>>, foreign_keys |-> <<>>]

StructureRaises(conn, name, fault) ==
    conn # "open" \/ fault # "none" \/ ~IsBareName(name)

\* get_table_structure, lines 129-171; fault is "cursor", "columns" or "fks"
GetTableStructure(conn, w, name, fault) ==
    IF StructureRaises(conn, name, fault)
    THEN EmptyStructure
    ELSE LET columns_info == IF HasTable(w, name) THEN TableOf(w, name).cols ELSE <<>>
             foreign_keys == IF HasTable(w, name) THEN TableOf(w, name).fks ELSE <<>>
         IN  [columns |->
                [i \in DOMAIN columns_info |->
                    [name |-> columns_info[i].name,
                     type |-> columns_info[i].type,
                     not_null |-> columns_info[i].notnull = 1,
                     default |-> columns_info[i].dflt,
                     primary_key |-> columns_info[i].pk = 1]],
              foreign_keys |->
                [i \in DOMAIN foreign_keys |->
                    [column |-> foreign_keys[i].from,
                     ref_table |-> foreign_keys[i].table,
                     ref_column |-> foreign_keys[i].to]]]

\* dict(zip(columns, row)): a later column of the same name replaces an earlier one
RECURSIVE ZipDict(_, _, _)
ZipDict(columns, row, k) ==
    IF k = 0 THEN <<>>
    ELSE (columns[k] :> row[k]) @@ ZipDict(columns, row, k - 1)

\* get_sample_data, lines 173-190
GetSampleData(conn, w, name, limit, fault) ==
    IF conn # "open" \/ fault # "none" \/ ~IsBareName(name) \/ ~HasTable(w, name)
    THEN <<>>
    ELSE LET tb == TableOf(w, name)
             columns == [j \in DOMAIN tb.cols |-> tb.cols[j].name]
             n == IF Len(tb.rows) < limit THEN Len(tb.rows) ELSE limit
         IN  [i \in 1..n |-> ZipDict(columns, tb.rows[i], Len(columns))]

RECURSIVE Join(_, _)
Join(seq, sep) ==
    IF seq = <<>> THEN ""
    ELSE IF Len(seq) = 1 THEN seq[1]
    ELSE seq[1] \o sep \o Join(Tail(seq), sep)

\* lines 204-213: the line of one column
ColumnLine(col) ==
    LET attributes ==
            (IF col.primary_key THEN <<"PRIMARY KEY">> ELSE <<>>)
            \o (IF col.not_null THEN <<"NOT NULL">> ELSE <<>>)
            \o (IF col.default # <<>> THEN <<"DEFAULT " \o col.default[1]>> ELSE <<>>)
        attr_str == IF attributes # <<>> THEN " (" \o Join(attributes, ", ") \o ")" ELSE ""
    IN  "  - " \o col.name \o ": " \o col.type \o attr_str

\* line 219
ForeignKeyLine(fk) ==
    "  - " \o fk.column \o " -> " \o fk.ref_table \o "(" \o fk.ref_column \o ")"

\* lines 199-219: what one table adds to the description before its row count
StructureLines(name, structure) ==
    <<"Table: " \o name, "Columns:">>
    \o [i \in DOMAIN structure.columns |-> ColumnLine(structure.columns[i])]
    \o (IF structure.foreign_keys # <<>>
        THEN <<"Foreign Keys:">>
             \o [i \in DOMAIN structure.foreign_keys |->
                    ForeignKeyLine(structure.foreign_keys[i])]
        ELSE <<>>)

\* lines 222-224: SELECT COUNT(*) FROM name, outside any try
CountRaises(conn, w, name, fault) ==
    conn # "open" \/ fault \/ ~IsBareName(name) \/ ~HasTable(w, name)

CountText(conn, w, name, fault) ==
    IF conn = "None" THEN NoneText
    ELSE IF conn = "closed" THEN ClosedText
    ELSE IF fault THEN FaultText("execute")
    ELSE IF ~IsBareName(name) THEN SyntaxErrorText
    ELSE NoSuchTable(name)

Stage(stage, table) == [stage |-> stage, table |-> table]

\* lines 197-225: the loop over the tables from the i-th on.  The description
\* is its sequence of lines.  sf gives the fault of each table's
\* get_table_structure call, cf the tables whose count raises.
RECURSIVE SchemaLoop(_, _, _, _, _, _, _, _)
SchemaLoop(conn, w, table_names, i, description, log, sf, cf) ==
    IF i > Len(table_names)
    THEN [description |-> description, raised |-> "", log |-> log]
    ELSE LET table_name == table_names[i]
             structure == GetTableStructure(conn, w, table_name, sf[table_name])
             described == description \o StructureLines(table_name, structure)
             log1 == log \o <<Stage("introspect", table_name),
                              Stage("describe", table_name),
                              Stage("introspect", table_name)>>
         IN  IF CountRaises(conn, w, table_name, table_name \in cf)
             THEN [description |-> described,
                   raised |-> CountText(conn, w, table_name, table_name \in cf),
                   log |-> log1]
             ELSE SchemaLoop(conn, w, table_names, i + 1,
                     described
                        \o <<"Row count: " \o ToString(Len(TableOf(w, table_name).rows)), "">>,
                     log1 \o <<Stage("describe", table_name)>>, sf, cf)

\* get_schema_for_ollama, lines 192-227: the description returned, or the
\* text of the exception that leaves the method (raised # "")
GetSchemaForOllama(conn, w, tablesFault, sf, cf) ==
    LET table_names == GetTables(conn, w, tablesFault)
    IN  SchemaLoop(conn, w, table_names, 1, <<"Database: " \o DbBaseName, "">>, <<>>, sf, cf)

\* lines 246-249
CellOutRaw(cell) == cell

CellOut(cell) ==
    IF cell.kind = "blob"
    THEN TextVal("<binary data, " \o ToString(Len(cell.val)) \o " bytes>")
    ELSE cell

\* lines 243-249: row_dict of one fetched row
RECURSIVE RowDict(_, _, _)
RowDict(columns, row, k) ==
    IF k = 0 THEN <<>>
    ELSE (columns[k] :> CellOut(row[k])) @@ RowDict(columns, row, k - 1)

Returned(ret, raised, escaped, conn, w, d, txn, ran) ==
    [ret |-> ret, raised |-> raised, escaped |-> escaped, connection |-> conn,
     work |-> w, disk |-> d, inTxn |-> txn, ran |-> ran]

NotRun == Ran("", FALSE, <<>>, <<>>, -1, <<>>, FALSE)

\* lines 266-268
FailureCloses(text, conn, w, d, txn, ran) ==
    Returned([type |-> "ERROR", error |-> text], text, FALSE, "closed", d, d, FALSE, ran)

Failure(text, conn, w, d, txn, ran) ==
    Returned([type |-> "ERROR", error |-> text], text, FALSE, conn, w, d, txn, ran)

\* lines 259-264: commit, then the affected-row count
MutationNoCommit(conn, d, txn, ran) ==
    Returned([type |-> "UPDATE", affected_rows |-> ran.rowcount],
             "", FALSE, conn, ran.work, d, txn, ran)

Mutation(conn, d, txn, ran) ==
    Returned([type |-> "UPDATE", affected_rows |-> ran.rowcount],
             "", FALSE, conn, ran.work, ran.work, FALSE, ran)

\* execute_query, lines 229-268, on a connection with working copy w,
\* committed database d and open-transaction flag txn.  fault is "cursor",
\* "execute", "fetch" or "commit".  The result: the value returned, the text
\* of the exception raised inside the try ("" for none), whether an exception
\* leaves the method, the state afterwards and what the driver reported.
ExecuteQuery(conn, w, d, txn, query, fault) ==
    IF conn = "None" THEN Failure(NoneText, conn, w, d, txn, NotRun)
    ELSE IF conn = "closed" THEN Failure(ClosedText, conn, w, d, txn, NotRun)
    ELSE IF fault = "cursor" THEN Failure(FaultText(fault), conn, w, d, txn, NotRun)
    ELSE LET ran == DriverRun(query, w)
             txn1 == txn \/ ran.dml
         IN  IF fault = "execute"
             THEN Failure(FaultText(fault), conn, w, d, txn1, NotRun)
             ELSE IF ran.err # ""
             THEN Failure(ran.err, conn, w, d, txn, NotRun)
             ELSE IF ran.hasDesc
             THEN IF fault = "fetch"
                  THEN Failure(FaultText(fault), conn, ran.work, d, txn1, ran)
                  ELSE LET columns == ran.desc
                           row_dicts == [i \in DOMAIN ran.rows |->
                                         RowDict(columns, ran.rows[i], Len(columns))]
                       IN  Returned([type |-> "SELECT", columns |-> columns,
                                     rows |-> row_dicts, row_count |-> Len(row_dicts)],
                                    "", FALSE, conn, ran.work, d, txn1, ran)
             ELSE IF fault = "commit"
                  THEN Failure(FaultText(fault), conn, ran.work, d, txn1, ran)
                  ELSE Mutation(conn, d, txn1, ran)


-----------------------------------------------------------------------------
(* natural_language_to_sql, lines 290-302: the clean-up of the generated text *)

\* lines 294-297
RemoveOpenerAll(s) ==
    IF StartsWith(s, FenceSql) THEN Strip(ReplaceAll(s, FenceSql, ""))
    ELSE IF StartsWith(s, Fence) THEN Strip(ReplaceAll(s, Fence, ""))
    ELSE s

RemoveOpener(s) ==
    IF StartsWith(s, FenceSql) THEN Strip(ReplaceFirst(s, FenceSql, ""))
    ELSE IF StartsWith(s, Fence) THEN Strip(ReplaceFirst(s, Fence, ""))
    ELSE s

\* lines 299-300
RemoveCloser(s) ==
    IF EndsWith(s, Fence) THEN Strip(Prefix(s, RFind(s, Fence))) ELSE s

\* line 291
FirstStripOmitted(s) == s

FirstStrip(s) == Strip(s)

Sanitize(text) ==
    Bind(FirstStrip(text), LAMBDA s0 : Bind(RemoveOpener(s0), LAMBDA s1 : RemoveCloser(s1)))

-----------------------------------------------------------------------------
(* The clean-up applied to a bounded set of generated texts *)

Chunks == {Fence, "sql", "ite", " ", "\n", "SELECT 1", BT}

RECURSIVE Concat(_)
Concat(seq) == IF seq = <<>> THEN "" ELSE Head(seq) \o Concat(Tail(seq))

SanInputs == {Concat(seq) : seq \in UNION {[1..n -> Chunks] : n \in 0..MaxChunks}}

SanIdle ==
    /\ raw = ""
    /\ once = ""
    /\ twice = ""
    /\ sanPc = "idle"

DbIdle ==
    /\ connection = "None"
    /\ disk = <<>>
    /\ work = <<>>
    /\ inTxn = FALSE

ClientIdle ==
    /\ call = [op |-> "none"]
    /\ hadFailure = FALSE

NoReply == [kind |-> "none", text |-> ""]

NoResults == [type |-> "NONE"]

MainIdle ==
    /\ pc = "idle"
    /\ ask = ""
    /\ opened = FALSE
    /\ tables = <<>>
    /\ schema_description = <<>>
    /\ prompt = <<>>
    /\ reply = NoReply
    /\ generated = ""
    /\ sql_query = ""
    /\ results = NoResults
    /\ exc = ""
    /\ closes = 0
    /\ stages = <<>>
    /\ printed = <<>>
    /\ disk0 = <<>>

SanInit ==
    /\ raw \in SanInputs
    /\ once = ""
    /\ twice = ""
    /\ sanPc = "input"
    /\ DbIdle
    /\ ClientIdle
    /\ MainIdle

SanitizeOnce ==
    /\ sanPc = "input"
    /\ once' = Sanitize(raw)
    /\ sanPc' = "once"
    /\ UNCHANGED <<raw, twice, dbVars, clientVars, mainVars>>

SanitizeTwice ==
    /\ sanPc = "once"
    /\ twice' = Sanitize(once)
    /\ sanPc' = "twice"
    /\ UNCHANGED <<raw, once, dbVars, clientVars, mainVars>>

SanNext == SanitizeOnce \/ SanitizeTwice

SanSpec == SanInit /\ [][SanNext]_vars

-----------------------------------------------------------------------------
(* format_table, lines 304-332 *)

\* str(value)
StrOf(v) ==
    CASE v.kind = "null" -> "None"
      [] v.kind = "blob" -> "b'" \o v.val \o "'"
      [] OTHER -> v.val

RECURSIVE Repeat(_, _)
Repeat(c, n) == IF n <= 0 THEN "" ELSE c \o Repeat(c, n - 1)

\* str.ljust
LJust(str, width) == str \o Repeat(" ", width - Len(str))

\* row.get(col, "") as text
GetText(row, col) == IF col \in DOMAIN row THEN StrOf(row[col]) ELSE ""

\* line 313
ColWidths(columns, rows) ==
    [col \in Range(columns) |->
        Max({Len(col)} \cup {Len(GetText(rows[i], col)) : i \in DOMAIN rows})]

\* lines 315-332
TableText(columns, rows, col_widths) ==
    LET separator ==
            "+-" \o Join([j \in DOMAIN columns |-> Repeat("-", col_widths[columns[j]])],
                         "-+-") \o "-+"
        header ==
            "| " \o Join([j \in DOMAIN columns |->
                            LJust(columns[j], col_widths[columns[j]])], " | ") \o " |"
        formatted_rows ==
            [i \in DOMAIN rows |->
                "| " \o Join([j \in DOMAIN columns |->
                                LJust(GetText(rows[i], columns[j]),
                                      col_widths[columns[j]])], " | ") \o " |"]
    IN  Join(<<separator, header, separator>> \o formatted_rows \o <<separator>>, "\n")

FormatTableAlways(data) ==
    Bind(ColWidths(data.columns, data.rows),
         LAMBDA col_widths : TableText(data.columns, data.rows, col_widths))

FormatTable(data) ==
    IF data.rows = <<>> \/ data.columns = <<>>
    THEN "No data to display"
    ELSE Bind(ColWidths(data.columns, data.rows),
              LAMBDA col_widths : TableText(data.columns, data.rows, col_widths))

-----------------------------------------------------------------------------
(* A client that calls the methods of one SQLiteExplorer in any order *)

Queries == {QSelect1, QSelectT, QSelectNone, QSelectDup, QUpdateT, QUpdateReturning,
            QBad, ""}

ExecFaults == {"none", "cursor", "execute", "fetch", "commit"}

StructFaults == {"none", "cursor", "columns", "fks"}

NamesIn(w) == {w[i].name : i \in DOMAIN w}

Before ==
    [connection |-> connection, work |-> work, disk |-> disk, inTxn |-> inTxn,
     hadFailure |-> hadFailure]

ClientInit ==
    /\ connection = "None"
    /\ disk \in Databases
    /\ work = disk
    /\ inTxn = FALSE
    /\ ClientIdle
    /\ SanIdle
    /\ MainIdle

XConnect ==
    /\ connection = "None"
    /\ \E fileExists \in BOOLEAN, raises \in BOOLEAN :
          LET r == Connect(connection, fileExists, raises) IN
          /\ connection' = r.connection
          /\ call' = [op |-> "connect", before |-> Before, ret |-> r.ok]
    /\ UNCHANGED <<disk, work, inTxn, hadFailure, sanVars, mainVars>>

XDisconnect ==
    /\ LET r == Disconnect(connection) IN
          /\ connection' = r.connection
          /\ call' = [op |-> "disconnect", before |-> Before, ret |-> r.closes]
    \* closing rolls an open transaction back
    /\ work' = disk
    /\ inTxn' = FALSE
    /\ UNCHANGED <<disk, hadFailure, sanVars, mainVars>>

XExecuteQuery ==
    /\ \E query \in Queries, fault \in ExecFaults :
          LET out == ExecuteQuery(connection, work, disk, inTxn, query, fault) IN
          /\ connection' = out.connection
          /\ work' = out.work
          /\ disk' = out.disk
          /\ inTxn' = out.inTxn
          /\ hadFailure' = (hadFailure \/ out.ret.type = "ERROR")
          /\ call' = [op |-> "execute_query", before |-> Before, query |-> query,
                      fault |-> fault, ret |-> out.ret, raised |-> out.raised,
                      escaped |-> out.escaped]
    /\ UNCHANGED <<sanVars, mainVars>>

XGetTables ==
    /\ \E fault \in {"none", "execute"} :
          call' = [op |-> "get_tables", before |-> Before, fault |-> fault,
                   ret |-> GetTables(connection, work, fault)]
    /\ UNCHANGED <<dbVars, hadFailure, sanVars, mainVars>>

XGetTableStructure ==
    /\ \E name \in NamesIn(work) \cup {"nosuch"}, fault \in StructFaults :
          call' = [op |-> "get_table_structure", before |-> Before, name |-> name,
                   fault |-> fault,
                   ret |-> GetTableStructure(connection, work, name, fault)]
    /\ UNCHANGED <<dbVars, hadFailure, sanVars, mainVars>>

XGetSampleData ==
    /\ \E name \in NamesIn(work) \cup {"nosuch"}, fault \in {"none", "execute"},
          limit \in {1, 5} :
          call' = [op |-> "get_sample_data", before |-> Before, name |-> name,
                   fault |-> fault, limit |-> limit,
                   ret |-> GetSampleData(connection, work, name, limit, fault)]
    /\ UNCHANGED <<dbVars, hadFailure, sanVars, mainVars>>

\* no driver call of a get_schema_for_ollama call is made to fail
NoFault(tf, sf, cf) == tf = "none" /\ cf = {} /\ \A name \in DOMAIN sf : sf[name] = "none"

XGetSchemaForOllama ==
    /\ \E tf \in {"none", "execute"}, sf \in [NamesIn(work) -> StructFaults],
          cf \in SUBSET NamesIn(work) :
          LET out == GetSchemaForOllama(connection, work, tf, sf, cf) IN
          call' = [op |-> "get_schema_for_ollama", before |-> Before,
                   tables |-> GetTables(connection, work, tf), sf |-> sf, cf |-> cf,
                   ret |-> out.description, raised |-> out.raised, log |-> out.log,
                   clean |-> NoFault(tf, sf, cf),
                   prev |-> IF call.op = "get_schema_for_ollama" /\ call.clean
                            THEN <<[ret |-> call.ret, raised |-> call.raised]>>
                            ELSE <<>>]
    /\ UNCHANGED <<dbVars, hadFailure, sanVars, mainVars>>

\* the values a client hands to format_table after a query that gave rows:
\* the result, the result without its rows and the result without its columns
FormatInputs(res) ==
    {res, [res EXCEPT !.rows = <<>>, !.row_count = 0], [res EXCEPT !.columns = <<>>]}

XFormatTable ==
    /\ call.op = "execute_query"
    /\ call.ret.type = "SELECT"
    /\ \E data \in FormatInputs(call.ret) :
          call' = [op |-> "format_table", before |-> Before, query |-> call.query,
                   data |-> data, ret |-> FormatTable(data)]
    /\ UNCHANGED <<dbVars, hadFailure, sanVars, mainVars>>

\* a client that executes queries and formats their results
ClientNext ==
    \/ XConnect
    \/ XDisconnect
    \/ XExecuteQuery
    \/ XFormatTable

ClientSpec == ClientInit /\ [][ClientNext]_vars

\* a client that reads the schema
SchemaNext ==
    \/ XConnect
    \/ XDisconnect
    \/ XGetTables
    \/ XGetTableStructure
    \/ XGetSampleData
    \/ XGetSchemaForOllama

SchemaSpec == ClientInit /\ [][SchemaNext]_vars

-----------------------------------------------------------------------------
(* The Ollama backend *)

ModelName == "llama3"

\* what GET /api/tags does: kind "models" is a 200 reply listing names
Tags(kind, names) == [kind |-> kind, names |-> names]

TagsReplies ==
    {Tags("unreachable", <<>>), Tags("status", <<>>), Tags("notjson", <<>>),
     Tags("models", <<>>), Tags("models", <<"mistral">>),
     Tags("models", <<"mistral", ModelName>>)}

\* check_ollama, lines 29-62
CheckOllama(model_name, r) ==
    /\ r.kind = "models"
    /\ r.names # <<>>
    /\ model_name \in Range(r.names)

\* what POST /api/generate does: the request fails, times out, is answered
\* with an error status, with a body that is not JSON, with a JSON object
\* that has no response field, or with a response text
Reply(kind, text) == [kind |-> kind, text |-> text]

GenTexts ==
    {"  " \o QSelect1 \o "  ",
     FenceSql \o "\n" \o QSelectT \o "\n" \o Fence,
     Fence \o "\n" \o QSelect1 \o "\n" \o Fence,
     QUpdateT,
     QBad}

FailureKinds == {"unreachable", "timeout", "status", "notjson", "missing"}

Replies == {Reply(k, "") : k \in FailureKinds} \cup {Reply("ok", t) : t \in GenTexts}

\* str(e) of the exception the request raises
ReplyError(kind) ==
    CASE kind = "unreachable" -> "Connection refused"
      [] kind = "timeout" -> "Read timed out. (read timeout=60)"
      [] kind = "status" -> "500 Server Error: Internal Server Error"
      [] kind = "notjson" -> "Expecting value: line 1 column 1 (char 0)"
      [] OTHER -> ""

\* OllamaClient.generate, lines 70-89: the value returned and whether an
\* exception leaves the method
Generate(r) ==
    [value |-> CASE r.kind = "ok" -> r.text
                 [] r.kind = "missing" -> ""
                 [] OTHER -> "Error: " \o ReplyError(r.kind),
     escaped |-> FALSE]

\* natural_language_to_sql, lines 272-284: the prompt, as its lines
BuildPrompt(description, query) ==
    <<"You are a database expert who converts natural language questions into precise SQL queries.",
      "",
      "Here is the schema information for the SQLite database:",
      Fence>>
    \o description
    \o <<Fence,
         "",
         "User question: \"" \o query \o "\"",
         "",
         "Based on the schema above, write a single SQL query that answers this question.",
         "Only return the SQL query with no additional explanations or comments.",
         "The SQL query must be valid SQLite syntax.">>

-----------------------------------------------------------------------------
(* main, lines 349-421 *)

Question == "how many rows are in t?"

\* lines 357-359
TableListing(names) ==
    <<"Found " \o ToString(Len(names)) \o " tables in the database:">>
    \o [i \in DOMAIN names |-> "  - " \o names[i]]

\* lines 385-393: the report of the result
ResultReport(res) ==
    <<"--- Query Results ---">>
    \o (CASE res.type = "SELECT" ->
                <<"Found " \o ToString(res.row_count) \o " rows">>
                \o (IF res.row_count > 0 THEN <<FormatTable(res)>> ELSE <<>>)
          [] res.type = "UPDATE" ->
                <<"Query executed successfully. Affected rows: "
                    \o ToString(res.affected_rows)>>
          [] OTHER -> <<"Error: " \o res.error>>)

\* json.dumps(value, default=str)
JsonOf(v) ==
    CASE v.kind = "int" -> v.val
      [] v.kind = "null" -> "null"
      [] OTHER -> "\"" \o StrOf(v) \o "\""

\* the keys of dict(zip(columns, row)), in insertion order
RECURSIVE DictKeys(_)
DictKeys(columns) ==
    IF columns = <<>> THEN <<>>
    ELSE LET front == DictKeys(SubSeq(columns, 1, Len(columns) - 1))
             last == columns[Len(columns)]
         IN  IF last \in Range(front) THEN front ELSE Append(front, last)

JsonRow(columns, row) ==
    LET keys == DictKeys(columns)
    IN  "{" \o Join([j \in DOMAIN keys |-> "\"" \o keys[j] \o "\": " \o JsonOf(row[keys[j]])],
                    ", ") \o "}"

\* lines 399-417: what the session without a question prints about one table
TableReport(conn, w, table_name, structFault, sampleFault) ==
    LET structure == GetTableStructure(conn, w, table_name, structFault)
        sample == GetSampleData(conn, w, table_name, 3, sampleFault)
        columns == IF HasTable(w, table_name)
                   THEN [j \in DOMAIN TableOf(w, table_name).cols |->
                            TableOf(w, table_name).cols[j].name]
                   ELSE <<>>
    IN  <<"", "Table: " \o table_name, "  Columns:">>
        \o [i \in DOMAIN structure.columns |->
              LET col == structure.columns[i] IN
              "    - " \o col.name \o " (" \o col.type \o ") "
              \o (IF col.primary_key THEN "PK" ELSE "") \o " "
              \o (IF col.not_null THEN "NOT NULL" ELSE "NULL")]
        \o (IF structure.foreign_keys # <<>>
            THEN <<"  Foreign Keys:">>
                 \o [i \in DOMAIN structure.foreign_keys |->
                        "  " \o ForeignKeyLine(structure.foreign_keys[i])]
            ELSE <<>>)
        \o (IF sample # <<>>
            THEN <<"  Sample Data:">>
                 \o [i \in DOMAIN sample |->
                        "    Row " \o ToString(i) \o ": " \o JsonRow(columns, sample[i])]
            ELSE <<>>)

RECURSIVE SchemaReport(_, _, _, _, _, _)
SchemaReport(conn, w, names, i, sf, sampleFaults) ==
    IF i > Len(names) THEN <<>>
    ELSE TableReport(conn, w, names[i], sf[names[i]],
                     IF names[i] \in sampleFaults THEN "execute" ELSE "none")
         \o SchemaReport(conn, w, names, i + 1, sf, sampleFaults)

\* the statement of main that follows the report of the result
AfterDisplayRetry(res) == IF res.type = "ERROR" THEN "prompt" ELSE "finally"

AfterDisplay(res) == "finally"

MainStructFaults == {"none", "columns"}

TryPcs == {"get_tables", "check_ollama", "get_schema", "prompt", "generate",
           "sanitize", "execute", "display", "show_schema"}

Init ==
    /\ pc = "connect"
    /\ ask \in {"", Question}
    /\ opened = FALSE
    /\ tables = <<>>
    /\ schema_description = <<>>
    /\ prompt = <<>>
    /\ reply = NoReply
    /\ generated = ""
    /\ sql_query = ""
    /\ results = NoResults
    /\ exc = ""
    /\ closes = 0
    /\ stages = <<>>
    /\ printed = <<>>
    /\ connection = "None"
    /\ disk \in Databases
    /\ work = disk
    /\ disk0 = disk
    /\ inTxn = FALSE
    /\ ClientIdle
    /\ SanIdle

\* lines 350-352
MConnect ==
    /\ pc = "connect"
    /\ \E fileExists \in BOOLEAN, raises \in BOOLEAN :
          LET r == Connect(connection, fileExists, raises) IN
          /\ connection' = r.connection
          /\ opened' = r.ok
          /\ pc' = IF r.ok THEN "get_tables" ELSE "done"
    /\ UNCHANGED <<disk, work, inTxn, clientVars, sanVars, ask, tables,
                   schema_description, prompt, reply, generated, sql_query, results,
                   exc, closes, stages, printed, disk0>>

\* lines 356-362
MGetTables ==
    /\ pc = "get_tables"
    /\ \E fault \in {"none", "execute"} :
          /\ tables' = GetTables(connection, work, fault)
          /\ printed' = printed \o TableListing(tables')
    /\ pc' = IF ask # "" THEN "check_ollama" ELSE "show_schema"
    /\ UNCHANGED <<dbVars, clientVars, sanVars, ask, opened, schema_description,
                   prompt, reply, generated, sql_query, results, exc, closes, stages,
                   disk0>>

\* line 364
MCheckOllama ==
    /\ pc = "check_ollama"
    /\ \E r \in TagsReplies :
          pc' = IF CheckOllama(ModelName, r) THEN "get_schema" ELSE "finally"
    /\ UNCHANGED <<dbVars, clientVars, sanVars, ask, opened, tables,
                   schema_description, prompt, reply, generated, sql_query, results,
                   exc, closes, stages, printed, disk0>>

\* line 369
MGetSchema ==
    /\ pc = "get_schema"
    /\ \E tf \in {"none", "execute"}, sf \in [NamesIn(work) -> MainStructFaults],
          cf \in SUBSET NamesIn(work) :
          LET out == GetSchemaForOllama(connection, work, tf, sf, cf) IN
          /\ stages' = stages \o out.log
          /\ IF out.raised # ""
             THEN /\ exc' = out.raised
                  /\ pc' = "finally"
                  /\ UNCHANGED schema_description
             ELSE /\ schema_description' = out.description
                  /\ pc' = "prompt"
                  /\ UNCHANGED exc
    /\ UNCHANGED <<dbVars, clientVars, sanVars, ask, opened, tables, prompt, reply,
                   generated, sql_query, results, closes, printed, disk0>>

\* line 372 and lines 272-284
MPrompt ==
    /\ pc = "prompt"
    /\ prompt' = BuildPrompt(schema_description, ask)
    /\ stages' = Append(stages, Stage("prompt", ""))
    /\ pc' = "generate"
    /\ UNCHANGED <<dbVars, clientVars, sanVars, ask, opened, tables,
                   schema_description, reply, generated, sql_query, results, exc,
                   closes, printed, disk0>>

\* line 288
MGenerate ==
    /\ pc = "generate"
    /\ \E r \in Replies :
          /\ reply' = r
          /\ generated' = Generate(r).value
          /\ IF Generate(r).escaped
             THEN exc' = "generate" /\ pc' = "finally"
             ELSE UNCHANGED exc /\ pc' = "sanitize"
    /\ stages' = Append(stages, Stage("generate", ""))
    /\ UNCHANGED <<dbVars, clientVars, sanVars, ask, opened, tables,
                   schema_description, prompt, sql_query, results, closes, printed,
                   disk0>>

\* lines 290-302
MSanitize ==
    /\ pc = "sanitize"
    /\ sql_query' = Sanitize(generated)
    /\ stages' = Append(stages, Stage("sanitize", ""))
    /\ pc' = "execute"
    /\ UNCHANGED <<dbVars, clientVars, sanVars, ask, opened, tables,
                   schema_description, prompt, reply, generated, results, exc, closes,
                   printed, disk0>>

\* lines 375-382
MExecute ==
    /\ pc = "execute"
    /\ \E fault \in ExecFaults :
          LET out == ExecuteQuery(connection, work, disk, inTxn, sql_query, fault) IN
          /\ connection' = out.connection
          /\ work' = out.work
          /\ disk' = out.disk
          /\ inTxn' = out.inTxn
          /\ results' = out.ret
          /\ IF out.escaped
             THEN exc' = out.raised /\ pc' = "finally"
             ELSE UNCHANGED exc /\ pc' = "display"
    /\ printed' = printed \o <<"--- Natural Language Query ---", "Query: " \o ask,
                               "--- Generated SQL ---", sql_query,
                               "Executing query...">>
    /\ stages' = Append(stages, Stage("execute", ""))
    /\ UNCHANGED <<clientVars, sanVars, ask, opened, tables, schema_description,
                   prompt, reply, generated, sql_query, closes, disk0>>

\* lines 385-393
MDisplay ==
    /\ pc = "display"
    /\ printed' = printed \o ResultReport(results)
    /\ stages' = Append(stages, Stage("format", ""))
    /\ pc' = AfterDisplay(results)
    /\ UNCHANGED <<dbVars, clientVars, sanVars, ask, opened, tables,
                   schema_description, prompt, reply, generated, sql_query, results,
                   exc, closes, disk0>>

\* lines 396-417
MShowSchema ==
    /\ pc = "show_schema"
    /\ \E sf \in [NamesIn(work) -> MainStructFaults], sampleFaults \in SUBSET NamesIn(work) :
          printed' = printed \o <<"Database Schema Information:">>
                     \o SchemaReport(connection, work, tables, 1, sf, sampleFaults)
    /\ pc' = "finally"
    /\ UNCHANGED <<dbVars, clientVars, sanVars, ask, opened, tables,
                   schema_description, prompt, reply, generated, sql_query, results,
                   exc, closes, stages, disk0>>

\* any statement of the try block raises (an interrupt, a failing print)
MRaise ==
    /\ pc \in TryPcs
    /\ exc' = "KeyboardInterrupt"
    /\ pc' = "finally"
    /\ UNCHANGED <<dbVars, clientVars, sanVars, ask, opened, tables,
                   schema_description, prompt, reply, generated, sql_query, results,
                   closes, stages, printed, disk0>>

\* lines 419-421; closing rolls an open transaction back
MFinally ==
    /\ pc = "finally"
    /\ LET r == Disconnect(connection) IN
          /\ connection' = r.connection
          /\ closes' = closes + r.closes
    /\ work' = disk
    /\ inTxn' = FALSE
    /\ pc' = "done"
    /\ UNCHANGED <<disk, clientVars, sanVars, ask, opened, tables,
                   schema_description, prompt, reply, generated, sql_query, results,
                   exc, stages, printed, disk0>>

Next ==
    \/ MConnect
    \/ MGetTables
    \/ MCheckOllama
    \/ MGetSchema
    \/ MPrompt
    \/ MGenerate
    \/ MSanitize
    \/ MExecute
    \/ MDisplay
    \/ MShowSchema
    \/ MRaise
    \/ MFinally

Spec == Init /\ [][Next]_vars

\* main runs to its end: nothing in it waits
FairSpec == Spec /\ WF_vars(Next)

-----------------------------------------------------------------------------
(* Properties of the clean-up *)

FencedExample == FenceSql \o "\n" \o "SELECT 1" \o "\n" \o Fence

PaddedExample == "  " \o "SELECT 1" \o "  "

\* what is left of a text that begins with a fence: the text without its
\* opener (the fence, with the tag sql when it follows directly) and without
\* a fence that ends the remainder, trimmed
Unfenced(text) ==
    LET t == Strip(text)
        opener == IF StartsWith(t, FenceSql) THEN FenceSql ELSE Fence
        rest == Suffix(t, Len(opener))
        body == IF EndsWith(rest, Fence) THEN Prefix(rest, Len(rest) - Len(Fence))
                ELSE rest
    IN  Strip(body)

\* C9: a generated text that, trimmed, begins with a fence loses exactly one
\* opening fence and, when what follows the opener ends with a fence, exactly
\* one closing fence; the text in between is kept and trimmed.  The fenced
\* example yields SELECT 1 and so does the whitespace-padded example.
C9_FenceStripped ==
    sanPc # "input" =>
        /\ StartsWith(Strip(raw), Fence) => once = Unfenced(raw)
        /\ raw = FencedExample => once = "SELECT 1"
        /\ raw = PaddedExample => once = "SELECT 1"

C9_Witness ==
    /\ sanPc = "once"
    /\ raw = FencedExample
    /\ once = "SELECT 1"

\* C10: for a text that contains no fence the clean-up is the trimmed text,
\* and cleaning that result again leaves it unchanged.
C10_FenceFreeNoOp ==
    Occurrences(raw, Fence) = {} =>
        /\ sanPc # "input" => once = Strip(raw)
        /\ sanPc = "twice" => twice = once

C10_Witness ==
    /\ sanPc = "twice"
    /\ Occurrences(raw, Fence) = {}
    /\ raw # Strip(raw)
    /\ Strip(raw) # ""
    /\ twice = Strip(raw)

\* language hints a backend puts after the opening fence
Hints == {"sql", "ite", "sqlite", "sqlsql"}

\* the trimmed text begins with a fence tagged with the hint, alone on its line
OpensWith(text, hint) == StartsWith(Strip(text), Fence \o hint \o "\n")

\* the lines below the opener of a text that OpensWith the hint, without a
\* fence that ends them, trimmed
Body(text, hint) ==
    LET rest == Suffix(Strip(text), Len(Fence \o hint))
        body == IF EndsWith(rest, Fence) THEN Prefix(rest, Len(rest) - Len(Fence))
                ELSE rest
    IN  Strip(body)

HintedExample == Fence \o "sqlite" \o "\n" \o "SELECT 1" \o "\n" \o Fence

\* C11: when the opening fence carries a language hint, whatever the hint,
\* the clean-up removes fence and hint together: the query is the text below
\* the opener line and holds no character of the hint.
C11_HintRemoved ==
    sanPc # "input" =>
        /\ \A hint \in Hints : OpensWith(raw, hint) => once = Body(raw, hint)
        /\ raw = HintedExample => once = "SELECT 1"


TrailingFenceExample == "SELECT 1" \o "\n" \o Fence

\* C20: a generated text that, trimmed, does not begin with a fence comes
\* back trimmed and otherwise whole, also when it ends with a fence.
C20_OnlyOpenerPatternStripped ==
    (sanPc # "input" /\ ~StartsWith(Strip(raw), Fence)) =>
        /\ once = Strip(raw)
        /\ raw = TrailingFenceExample => once = TrailingFenceExample

\* the part of C20 about texts that neither begin nor end with a fence
C20_UnfencedEndsKept ==
    (sanPc # "input" /\ ~StartsWith(Strip(raw), Fence) /\ ~EndsWith(Strip(raw), Fence)) =>
        once = Strip(raw)

-----------------------------------------------------------------------------
(* Properties of execute_query *)

IsExecute == call.op = "execute_query"

\* what the driver does with the query of the latest call
DriverSaid == DriverRun(call.query, call.before.work)

\* the driver raises during the latest call: at cursor creation, at
\* execution, while the rows are fetched, or at commit
DriverRaised ==
    \/ call.before.connection # "open"
    \/ call.fault \in {"cursor", "execute"}
    \/ DriverSaid.err # ""
    \/ call.fault = "fetch" /\ DriverSaid.hasDesc
    \/ call.fault = "commit" /\ ~DriverSaid.hasDesc

\* C1: execute_query never raises; when the driver raises it returns the
\* error variant with the non-empty text of the error and leaves the
\* connection as it was, and a query the driver accepts, sent on an open
\* connection after an earlier failure, returns rows or an affected-row count.
C1_FailureKeepsConnection ==
    IsExecute =>
        /\ ~call.escaped
        /\ DriverRaised =>
              /\ call.ret.type = "ERROR"
              /\ call.ret.error # ""
              /\ call.ret.error = call.raised
              /\ connection = call.before.connection
        /\ (call.before.connection = "open" /\ call.before.hadFailure /\ ~DriverRaised) =>
              /\ connection = "open"
              /\ call.ret.type = (IF DriverSaid.hasDesc THEN "SELECT" ELSE "UPDATE")

C1_Witness ==
    /\ IsExecute
    /\ call.before.connection = "open"
    /\ call.before.hadFailure
    /\ call.query = QSelectT
    /\ call.ret.type = "SELECT"
    /\ connection = "open"

\* C2: a statement for which the driver reports no result-set shape is
\* committed before execute_query returns and gives the driver's
\* affected-row count (3 for an UPDATE of 3 rows); a statement with a
\* result-set shape gives rows, never a count.
C2_MutationCommitted ==
    (IsExecute /\ ~DriverRaised) =>
        /\ ~DriverSaid.hasDesc =>
              /\ call.ret.type = "UPDATE"
              /\ call.ret.affected_rows = DriverSaid.rowcount
              /\ work = DriverSaid.work
              /\ disk = work
              /\ ~inTxn
        /\ DriverSaid.hasDesc => call.ret.type = "SELECT"
        /\ (call.query = QUpdateT /\ Len(TableOf(call.before.work, "t").rows) = 3) =>
              call.ret = [type |-> "UPDATE", affected_rows |-> 3]

C2_Witness ==
    /\ IsExecute
    /\ call.query = QUpdateT
    /\ call.before.connection = "open"
    /\ HasTable(call.before.work, "t")
    /\ Len(TableOf(call.before.work, "t").rows) = 3
    /\ call.ret = [type |-> "UPDATE", affected_rows |-> 3]
    /\ disk # call.before.disk
    /\ \A k \in 1..3 : TableOf(disk, "t").rows[k][2] = IntVal("1")

BinaryPlaceholder(n) == TextVal("<binary data, " \o ToString(n) \o " bytes>")

\* C4: no value of a rows result is binary: the value stored under a column
\* name is a cell the driver returned in that row under that name, unchanged
\* unless it is binary, and then the placeholder naming its length (12 bytes
\* for a cell of 12 bytes).
C4_NoRawBinary ==
    (IsExecute /\ call.ret.type = "SELECT") =>
        /\ call.ret.columns = DriverSaid.desc
        /\ DOMAIN call.ret.rows = DOMAIN DriverSaid.rows
        /\ \A i \in DOMAIN call.ret.rows : \A j \in DOMAIN call.ret.columns :
              LET v == call.ret.rows[i][call.ret.columns[j]] IN
              /\ v.kind # "blob"
              /\ \E j2 \in DOMAIN call.ret.columns :
                    LET cell == DriverSaid.rows[i][j2] IN
                    /\ call.ret.columns[j2] = call.ret.columns[j]
                    /\ cell.kind = "blob" => v = BinaryPlaceholder(Len(cell.val))
                    /\ cell.kind # "blob" => v = cell
                    /\ cell = Blob12 => v.val = "<binary data, 12 bytes>"

C4_Witness ==
    /\ IsExecute
    /\ call.query = QSelectT
    /\ call.ret.type = "SELECT"
    /\ \E i \in DOMAIN call.ret.rows :
          /\ DriverSaid.rows[i][3] = Blob12
          /\ call.ret.rows[i]["b"] = TextVal("<binary data, 12 bytes>")
          /\ call.ret.rows[i]["id"] = DriverSaid.rows[i][1]

\* C12: a query with a result-set shape that matches no row returns the rows
\* variant with the column names of the query and no row, never a count and
\* never an error; and format_table gives the fixed placeholder for a rows
\* value that has no rows or no columns.
C12_ZeroRowsPlaceholder ==
    /\ (IsExecute /\ ~DriverRaised /\ DriverSaid.hasDesc /\ DriverSaid.rows = <<>>) =>
          call.ret = [type |-> "SELECT", columns |-> DriverSaid.desc, rows |-> <<>>,
                      row_count |-> 0]
    /\ (call.op = "format_table" /\ (call.data.rows = <<>> \/ call.data.columns = <<>>)) =>
          call.ret = "No data to display"

C12_Witness ==
    /\ call.op = "format_table"
    /\ call.query = QSelectNone
    /\ call.data = [type |-> "SELECT", columns |-> <<"id", "x", "b">>, rows |-> <<>>,
                    row_count |-> 0]
    /\ Len(TableOf(work, "t").rows) > 0
    /\ call.ret = "No data to display"

\* C21: when execute_query returns rows or a count, what the statement
\* changed is committed: the database file holds the change, no transaction
\* is left open and the change outlives the closing of the connection, also
\* for a statement that changes data and has a result-set shape.
C21_ChangesCommitted ==
    (IsExecute /\ call.ret.type # "ERROR" /\ DriverSaid.dml) =>
        /\ disk = DriverSaid.work
        /\ ~inTxn

\* the part of C21 about statements without a result-set shape
C21_CountsCommitted ==
    (IsExecute /\ call.ret.type = "UPDATE" /\ DriverSaid.dml) =>
        /\ disk = DriverSaid.work
        /\ ~inTxn

\* C22: a rows result has one row per row of the driver, in its order, and
\* the value it stores in row i under the name of the j-th column is the
\* cell j of the driver's row i, or its placeholder when the cell is binary,
\* also when two columns have one name.
C22_EveryCellPreserved ==
    (IsExecute /\ call.ret.type = "SELECT") =>
        /\ Len(call.ret.rows) = Len(DriverSaid.rows)
        /\ \A i \in DOMAIN call.ret.rows : \A j \in DOMAIN call.ret.columns :
              call.ret.rows[i][call.ret.columns[j]] = CellOut(DriverSaid.rows[i][j])

DistinctNames(columns) == Cardinality(Range(columns)) = Len(columns)

\* the part of C22 about results whose columns have different names
C22_CellsOfDistinctColumns ==
    (IsExecute /\ call.ret.type = "SELECT" /\ DistinctNames(call.ret.columns)) =>
        /\ Len(call.ret.rows) = Len(DriverSaid.rows)
        /\ \A i \in DOMAIN call.ret.rows : \A j \in DOMAIN call.ret.columns :
              call.ret.rows[i][call.ret.columns[j]] = CellOut(DriverSaid.rows[i][j])

IsFormat == call.op = "format_table" /\ call.data.rows # <<>> /\ call.data.columns # <<>>

\* str.split("\n")
RECURSIVE SplitLines(_)
SplitLines(s) ==
    Bind(Find(s, "\n"),
         LAMBDA k : IF k = -1 THEN <<s>>
                    ELSE <<Prefix(s, k)>> \o SplitLines(Suffix(s, k + 1)))

\* the text of the cell of row i under the j-th column
CellText(data, i, j) == StrOf(data.rows[i][data.columns[j]])

\* the widest of the header of the j-th column and of its cells
WidthOf(data, j) ==
    Max({Len(data.columns[j])} \cup {Len(CellText(data, i, j)) : i \in DOMAIN data.rows})

\* where the j-th field begins in a line of the table
RECURSIVE Offset(_, _)
Offset(data, j) == IF j = 1 THEN 2 ELSE Offset(data, j - 1) + WidthOf(data, j - 1) + 3

\* the j-th field of a line of the table
Field(data, line, j) == SubSeq(line, Offset(data, j) + 1, Offset(data, j) + WidthOf(data, j))

\* the table is a rule, the header, a rule, one line per record in the order
\* of the rows and a rule, all of one length, every field as wide as its column
Aligned(data, text) ==
    LET lines == SplitLines(text) IN
    /\ Len(lines) = Len(data.rows) + 4
    /\ \A n \in DOMAIN lines : Len(lines[n]) = Len(lines[1])
    /\ \A j \in DOMAIN data.columns :
          /\ Field(data, lines[1], j) = Repeat("-", WidthOf(data, j))
          /\ Field(data, lines[2], j) = LJust(data.columns[j], WidthOf(data, j))
          /\ \A i \in DOMAIN data.rows :
                Field(data, lines[3 + i], j) = LJust(CellText(data, i, j), WidthOf(data, j))
    /\ lines[3] = lines[1]
    /\ lines[Len(lines)] = lines[1]

HasLineBreak(data) ==
    \E i \in DOMAIN data.rows : \E j \in DOMAIN data.columns :
        Occurrences(CellText(data, i, j), "\n") # {}

\* C13: for a rows value with a row and a column format_table pads every
\* column to the widest of its header and its cells, so that the header, the
\* rules and the record lines have one length, and the table has one header
\* line and one line per record, in the order of the rows.
C13_TableAligned == IsFormat => Aligned(call.data, call.ret)

\* the part of C13 about values whose texts have no line break
C13_AlignedWithoutLineBreaks ==
    (IsFormat /\ ~HasLineBreak(call.data)) => Aligned(call.data, call.ret)

-----------------------------------------------------------------------------
(* Properties of the schema description *)

IsSchema == call.op = "get_schema_for_ollama"

TableHeader(name) == "Table: " \o name

\* C5: a failure to read the column metadata, the foreign keys or the row
\* count of one table does not end get_schema_for_ollama: no exception
\* leaves it and every table of the database appears in the description.
C5_IntrospectionContinues ==
    (IsSchema /\ call.before.connection = "open") =>
        /\ call.raised = ""
        /\ \A i \in DOMAIN call.tables : TableHeader(call.tables[i]) \in Range(call.ret)

\* the part of C5 about get_table_structure alone: its failures are caught
C5_StructureFailureCaught ==
    (IsSchema /\ call.before.connection = "open" /\ call.cf = {}
       /\ \A i \in DOMAIN call.tables : IsBareName(call.tables[i])) =>
        /\ call.raised = ""
        /\ \A i \in DOMAIN call.tables : TableHeader(call.tables[i]) \in Range(call.ret)

\* names that SQLite keeps for its own tables
IsSystemName(name) == StartsWith(name, "sqlite_")

\* the tables of the database a user created, in the order of sqlite_master
UserTableNames(w) ==
    LET found == SelectSeq(w, LAMBDA tb : ~IsSystemName(tb.name))
    IN  [i \in 1..Len(found) |-> found[i].name]

CountOf(seq, x) == Cardinality({i \in DOMAIN seq : seq[i] = x})

IsCleanSchema == IsSchema /\ call.before.connection = "open" /\ call.clean

\* C14: the description of an unchanged database is the same text on every
\* run and holds exactly one entry for every user table of the database.
C14_EveryTableOnce ==
    IsCleanSchema =>
        /\ call.raised = ""
        /\ \A name \in Range(UserTableNames(work)) :
              CountOf(call.ret, TableHeader(name)) = 1
        /\ Cardinality({i \in DOMAIN call.ret : StartsWith(call.ret[i], "Table: ")})
              = Len(UserTableNames(work))
        /\ call.prev # <<>> => call.prev[1] = [ret |-> call.ret, raised |-> call.raised]

PlainNames(w) == \A name \in NamesIn(w) : IsBareName(name) /\ ~LikeSqlitePattern(name)

\* the part of C14 about databases whose table names are neither keywords
\* nor begin with sqlite
C14_EveryPlainTableOnce == (IsCleanSchema /\ PlainNames(work)) => C14_EveryTableOnce

\* C15: once get_schema_for_ollama has begun to write the description it
\* issues no database call: no read of the database follows a piece of the
\* description.
C15_DescriptionIssuesNoDbCall ==
    IsSchema =>
        \A i, j \in DOMAIN call.log :
            i < j => ~(call.log[i].stage = "describe" /\ call.log[j].stage = "introspect")

\* the tags of a column as PRAGMA table_info reports it
ExpectedTags(c) ==
    (IF c.pk > 0 THEN <<"PRIMARY KEY">> ELSE <<>>)
    \o (IF c.notnull = 1 THEN <<"NOT NULL">> ELSE <<>>)
    \o (IF c.dflt # <<>> THEN <<"DEFAULT " \o c.dflt[1]>> ELSE <<>>)

ExpectedColumnLine(c) ==
    "  - " \o c.name \o ": " \o c.type
    \o (IF ExpectedTags(c) # <<>> THEN " (" \o Join(ExpectedTags(c), ", ") \o ")" ELSE "")

\* the entry of table tb begins at line at of the description: its columns
\* carry their tags and its last line is its row count
EntryAsExpected(description, at, tb) ==
    /\ description[at + 1] = "Columns:"
    /\ \A j \in DOMAIN tb.cols : description[at + 1 + j] = ExpectedColumnLine(tb.cols[j])
    /\ description[at + 2 + Len(tb.cols) + (IF tb.fks # <<>> THEN 1 + Len(tb.fks) ELSE 0)]
          = "Row count: " \o ToString(Len(tb.rows))
    /\ tb.name = "users" =>
          /\ description[at + 2] = "  - id: INTEGER (PRIMARY KEY)"
          /\ description[at + 3] = "  - name: TEXT (NOT NULL)"
          /\ description[at + 4] = "Row count: 2"

EntriesAsExpected(names) ==
    \A name \in names :
        \E at \in DOMAIN call.ret :
            /\ call.ret[at] = TableHeader(name)
            /\ EntryAsExpected(call.ret, at, TableOf(work, name))

\* C16: every column of the description is name: type with the tags PRIMARY
\* KEY, NOT NULL and DEFAULT value exactly when they apply to the column and
\* with no tag group when none applies, and the entry of a table ends with
\* its row count.
C16_ColumnTags ==
    (IsCleanSchema /\ call.raised = "") => EntriesAsExpected(Range(call.tables))

SingleKey(tb) == \A j \in DOMAIN tb.cols : tb.cols[j].pk <= 1

\* the part of C16 about tables whose primary key is one column or none
C16_TagsOfSingleKeyTables ==
    (IsCleanSchema /\ call.raised = "") =>
        EntriesAsExpected({name \in Range(call.tables) : SingleKey(TableOf(work, name))})

\* C17: get_tables returns the tables a user created, all of them whatever
\* their names, and no table of SQLite itself.
C17_ExactlyUserTables ==
    (call.op = "get_tables" /\ call.before.connection = "open" /\ call.fault = "none") =>
        call.ret = UserTableNames(work)

\* the part of C17 about the tables of SQLite itself
C17_NoSystemTable ==
    call.op = "get_tables" => \A i \in DOMAIN call.ret : ~IsSystemName(call.ret[i])

IsStructure ==
    /\ call.op = "get_table_structure"
    /\ call.before.connection = "open"
    /\ call.fault = "none"
    /\ HasTable(work, call.name)
    /\ IsBareName(call.name)

\* C23: get_table_structure marks a column as primary key exactly when it
\* belongs to the primary key of the table, every column of a key of several
\* columns included.
C23_KeyColumnsMarked ==
    IsStructure =>
        /\ Len(call.ret.columns) = Len(TableOf(work, call.name).cols)
        /\ \A j \in DOMAIN call.ret.columns :
              call.ret.columns[j].primary_key = (TableOf(work, call.name).cols[j].pk > 0)

\* the part of C23 about tables whose primary key is one column or none
C23_SingleKeyMarked ==
    (IsStructure /\ SingleKey(TableOf(work, call.name))) =>
        \A j \in DOMAIN call.ret.columns :
            call.ret.columns[j].primary_key = (TableOf(work, call.name).cols[j].pk > 0)

-----------------------------------------------------------------------------
(* Properties of main *)

\* C3: a session whose connection was opened closes it exactly once, on every
\* way out of main: the connection is never closed twice, it has been closed
\* once when main has ended, and main does end.
C3_ClosedExactlyOnce ==
    /\ [](closes <= 1)
    /\ []((pc = "done" /\ opened) => (closes = 1 /\ connection = "closed"))
    /\ [](opened => <>(closes = 1))

C3_Witness ==
    /\ pc = "done"
    /\ opened
    /\ exc # ""
    /\ closes = 1
    /\ connection = "closed"

GenerationDone == pc \in {"sanitize", "execute", "display"} \/ results # NoResults

GenerationFailed == reply.kind \in FailureKinds

\* C6: generate does not raise; it returns the text of the backend as it is,
\* and after any failure of the request or of its reply a value that embeds
\* the description of the failure.
C6_GenerateEmbedsFailure ==
    GenerationDone =>
        /\ reply.kind = "ok" => generated = reply.text
        /\ GenerationFailed =>
              /\ StartsWith(generated, "Error: ")
              /\ Len(generated) > Len("Error: ")

\* C7: after a failed generation the execution of the returned value gives
\* the error variant, the request reports that error, and the database is
\* left as it was.
C7_FailedGenerationEndsInFailure ==
    (GenerationFailed /\ results # NoResults) =>
        /\ results.type = "ERROR"
        /\ disk = disk0
        /\ (pc = "done" /\ exc = "") =>
              printed[Len(printed)] = "Error: " \o results.error

StageRank(stage) ==
    CASE stage = "introspect" -> 1
      [] stage = "describe" -> 2
      [] stage = "prompt" -> 3
      [] stage = "generate" -> 4
      [] stage = "sanitize" -> 5
      [] stage = "execute" -> 6
      [] OTHER -> 7

\* introspection and description counted as one stage
MergedRank(stage) == IF stage = "introspect" THEN 2 ELSE StageRank(stage)

TimesRun(stage) == Cardinality({i \in DOMAIN stages : stages[i].stage = stage})

LaterStages == {"prompt", "generate", "sanitize", "execute", "format"}

NoRetry ==
    /\ \A stage \in LaterStages : TimesRun(stage) <= 1
    /\ \A name \in NamesIn(disk0) :
          Cardinality({i \in DOMAIN stages : stages[i] = Stage("introspect", name)}) <= 2
    /\ exc # "" => pc \in {"finally", "done"}

PipelinePcs == {"check_ollama", "get_schema", "prompt", "generate", "sanitize",
                "execute", "display"}

\* the session has not asked the backend for anything and has executed nothing
NothingGenerated ==
    /\ pc \notin PipelinePcs
    /\ reply = NoReply
    /\ results = NoResults
    /\ stages = <<>>

\* the pipeline has run from the description to the execution
FullPipelineRan ==
    /\ schema_description # <<>>
    /\ \A stage \in {"prompt", "generate", "sanitize", "execute"} : TimesRun(stage) = 1

\* the generated query and the report of its result have been printed
QueryAndResultPrinted ==
    /\ \E i \in DOMAIN printed :
          /\ printed[i] = "--- Generated SQL ---"
          /\ i < Len(printed)
          /\ printed[i + 1] = sql_query
    /\ \E i \in DOMAIN printed :
          SubSeq(printed, i, Len(printed)) = ResultReport(results)

\* the part of C18 about a session without a question
C18_NoQuestionOnlySchema == (opened /\ ask = "") => NothingGenerated

\* C18: a session with an open connection and no question prints schema
\* information only, without a request to the backend and without executing
\* anything; with a question it always runs the pipeline from the
\* description to the execution and prints the generated query and its
\* result.
C18_SessionByQuestion ==
    /\ C18_NoQuestionOnlySchema
    /\ (pc = "done" /\ opened /\ ask # "" /\ exc = "") =>
          /\ FullPipelineRan
          /\ QueryAndResultPrinted

\* the part of C18 about a session whose check of the backend succeeded
C18_PipelineAfterBackendCheck ==
    (pc = "done" /\ opened /\ ask # "" /\ exc = "" /\ schema_description # <<>>) =>
        /\ FullPipelineRan
        /\ QueryAndResultPrinted

\* the steps of main that issue database operations: the table listing, the
\* metadata reads and row counts, the execution of the query
DbStep == MGetTables \/ MGetSchema \/ MExecute \/ MShowSchema

NothingRan ==
    /\ tables = <<>>
    /\ schema_description = <<>>
    /\ reply = NoReply
    /\ results = NoResults
    /\ stages = <<>>
    /\ printed = <<>>
    /\ closes = 0

\* C19: when the database cannot be opened main ends at once, without
\* introspection, generation or execution, and main issues a database
\* operation only while the connection is open.
C19_ConnectionFailureFatal ==
    /\ []((pc = "done" /\ ~opened) => (NothingRan /\ connection = "None"))
    /\ [](pc \in TryPcs => (opened /\ connection = "open"))
    /\ [][DbStep => connection = "open"]_vars

C19_Witness ==
    /\ pc = "done"
    /\ ~opened
    /\ connection = "None"
    /\ NothingRan
    /\ disk # <<>>

=============================================================================
